---- MODULE Spec2Model ----
(***************************************************************************)
(* The Loadout Optimizer screen (LoadoutBuilder.tsx) as a state machine.   *)
(*                                                                         *)
(* The component state, its props, the stores-stream subscription and the  *)
(* two memoize-one caches are the variables.  Every step is one React      *)
(* event: the setState calls the handler makes are queued and processed,   *)
(* and the render(s) React then performs are part of the step.             *)
(*                                                                         *)
(* Object identity.  memoize-one compares arguments with ===.  Handlers    *)
(* and selectors always install newly allocated objects, so an object      *)
(* remembered by a cache is identical to the one passed now iff the        *)
(* component has not replaced it since.  A remembered object argument is   *)
(* therefore Held (still the object the component holds) until the         *)
(* component replaces it, which makes the remembered argument list Stale;  *)
(* primitives are remembered by value.                                     *)
(***************************************************************************)
EXTENDS Integers, Sequences, FiniteSets, TLC

VARIABLES
  state,              \* this.state
  props,              \* this.props (the part render and the handlers read)
  lifecycle,          \* "constructed" | "mounted" | "unmounted"
  storesSubscription, \* this.storesSubscription: 0 (unset) or a subscription id
  activeSubs,         \* subscriptions currently active on the stores stream
  memo,               \* the caches of computeSetsMemoized / filterSetsMemoized
  recent,             \* history: the most recent call of each underlying function, if it threw
  renders             \* the render(s) performed by the last step, in order

vars == <<state, props, lifecycle, storesSubscription, activeSubs, memo, recent, renders>>

(***************************************************************************)
(* Values                                                                  *)
(***************************************************************************)
MaxStat == 10

\* How many handler calls one React event may batch.
MaxBatch == 2

Undefined == [undefined |-> TRUE]
None == [none |-> TRUE]

\* A remembered object argument that is still the object the component holds.
Held == "held"
\* Remembered arguments of which the component has replaced an object.
Stale == [stale |-> TRUE]

StatTypes == {"Mobility", "Resilience", "Recovery"}

DefaultStatFilters ==
  [Mobility |-> [min |-> 0, max |-> MaxStat],
   Resilience |-> [min |-> 0, max |-> MaxStat],
   Recovery |-> [min |-> 0, max |-> MaxStat]]

DefaultStatOrder == <<"Resilience", "Recovery", "Mobility">>

EmptyMap == <<>>

InitialState ==
  [requirePerks |-> TRUE,
   lockedMap |-> EmptyMap,
   selectedStore |-> Undefined,
   statFilters |-> DefaultStatFilters,
   minimumPower |-> 0,
   query |-> "",
   statOrder |-> DefaultStatOrder]

ObjectFields == {"lockedMap", "statFilters", "statOrder"}

(***************************************************************************)
(* The environment: stores, snapshots, props, child inputs                 *)
(***************************************************************************)
StoreIds == {"a", "b"}

ClassOf(id) == IF id = "a" THEN "Titan" ELSE "Hunter"

Store(id, current) == [id |-> id, current |-> current, classType |-> ClassOf(id)]

\* Every snapshot holds exactly one current character.
Snapshots ==
  { <<Store("a", TRUE)>>,
    <<Store("a", TRUE), Store("b", FALSE)>>,
    <<Store("a", FALSE), Store("b", TRUE)>> }

Emissions == {[null |-> TRUE, stores |-> <<>>]} \cup {[null |-> FALSE, stores |-> s] : s \in Snapshots}

ItemClasses == {"Titan", "Hunter"}

\* Props with stores and definitions loaded and items for every class.
ReadyProps ==
  { [storesLoaded |-> TRUE, defs |-> TRUE, stores |-> s, itemClasses |-> ItemClasses] : s \in Snapshots }

PropsValues ==
  ReadyProps \cup
  { [storesLoaded |-> FALSE, defs |-> FALSE, stores |-> <<>>, itemClasses |-> {}],
    [storesLoaded |-> TRUE, defs |-> FALSE, stores |-> <<Store("a", TRUE), Store("b", FALSE)>>,
     itemClasses |-> ItemClasses],
    [storesLoaded |-> TRUE, defs |-> TRUE, stores |-> <<Store("a", TRUE), Store("b", FALSE)>>,
     itemClasses |-> {"Titan"}] }

Buckets == {[hash |-> "helmet"], [hash |-> "chest"]}

LockedLists == {<<"perk">>}

LockedMapInputs == {EmptyMap, [h \in {"helmet"} |-> <<"perk">>]}

\* The child components only pass well-formed ranges and orders.
StatFiltersInputs ==
  { [DefaultStatFilters EXCEPT !.Mobility = r] :
      r \in {[min |-> 0, max |-> MaxStat], [min |-> MaxStat, max |-> MaxStat]} }

StatOrderInputs == {DefaultStatOrder, <<"Mobility", "Resilience", "Recovery">>}

MinimumPowerInputs == {0, 750}

QueryInputs == {"", "is:masterwork"}

(***************************************************************************)
(* Array.prototype.find                                                    *)
(***************************************************************************)
First(stores, hits) ==
  IF hits = {} THEN Undefined
  ELSE stores[CHOOSE i \in hits : \A j \in hits : i <= j]

FindCurrent(stores) == First(stores, {i \in DOMAIN stores : stores[i].current})

FindById(stores, id) == First(stores, {i \in DOMAIN stores : stores[i].id = id})

(***************************************************************************)
(* setState: object patches and updater functions                          *)
(***************************************************************************)
ObjectUpdate(patch) == [kind |-> "object", patch |-> patch]

FunctionUpdate(hash, locked) == [kind |-> "function", hash |-> hash, locked |-> locked]

\* { ...lockedMap, [hash]: locked }
Spread(lockedMap, hash, locked) ==
  [h \in (DOMAIN lockedMap) \cup {hash} |-> IF h = hash THEN locked ELSE lockedMap[h]]

\* Object.assign({}, prev, partial)
Merge(prev, partial) ==
  [f \in DOMAIN prev |-> IF f \in DOMAIN partial THEN partial[f] ELSE prev[f]]

\* The partial state one queued update yields when processed against prev.
PartialState(prev, update) ==
  IF update.kind = "function"
    THEN [lockedMap |-> Spread(prev.lockedMap, update.hash, update.locked)]
    ELSE update.patch

RECURSIVE ProcessUpdateQueue(_, _)
ProcessUpdateQueue(prev, queue) ==
  IF queue = <<>> THEN prev
  ELSE ProcessUpdateQueue(Merge(prev, PartialState(prev, Head(queue))), Tail(queue))

\* The object-valued fields an update replaces by a newly allocated object.
Replaced(update) ==
  IF update.kind = "function" THEN {"lockedMap"}
  ELSE (DOMAIN update.patch) \cap ObjectFields

ReplacedBy(queue) == UNION {Replaced(queue[i]) : i \in DOMAIN queue}

(***************************************************************************)
(* The handlers (lines 303-344).  self is `this`: [state, props] as the    *)
(* handler reads them when it is called.  Each returns the argument of its *)
(* one setState call.                                                      *)
(***************************************************************************)
setRequiredPerks(self) == ObjectUpdate([requirePerks |-> FALSE])

\* Faulty variant of onCharacterChanged: the search text is cleared too.
onCharacterChangedClearsQuery(self, storeId) ==
  ObjectUpdate(
    [selectedStore |-> FindById(self.props.stores, storeId),
     lockedMap |-> EmptyMap,
     requirePerks |-> TRUE,
     statFilters |-> DefaultStatFilters,
     minimumPower |-> 0,
     query |-> ""])

\* Faulty variants of onCharacterChanged: a reset that forgets minimumPower, and one
\* that writes the stat ranges the wrong way round.
onCharacterChangedKeepsPower(self, storeId) ==
  ObjectUpdate(
    [selectedStore |-> FindById(self.props.stores, storeId),
     lockedMap |-> EmptyMap,
     requirePerks |-> TRUE,
     statFilters |-> DefaultStatFilters])

onCharacterChangedSwapsRange(self, storeId) ==
  ObjectUpdate(
    [selectedStore |-> FindById(self.props.stores, storeId),
     lockedMap |-> EmptyMap,
     requirePerks |-> TRUE,
     statFilters |-> [t \in StatTypes |-> [min |-> MaxStat, max |-> 0]],
     minimumPower |-> 0])

onCharacterChanged(self, storeId) ==
  ObjectUpdate(
    [selectedStore |-> FindById(self.props.stores, storeId),
     lockedMap |-> EmptyMap,
     requirePerks |-> TRUE,
     statFilters |-> DefaultStatFilters,
     minimumPower |-> 0])

onStatFiltersChanged(self, statFilters) == ObjectUpdate([statFilters |-> statFilters])

onMinimumPowerChanged(self, minimumPower) == ObjectUpdate([minimumPower |-> minimumPower])

onQueryChanged(self, query) == ObjectUpdate([query |-> query])

onStatOrderChanged(self, statOrder) == ObjectUpdate([statOrder |-> statOrder])

onLockedMapChanged(self, lockedMap) == ObjectUpdate([lockedMap |-> lockedMap])

\* Faulty variant of updateLockedArmor: the other slots are dropped.
updateLockedArmorAlone(self, bucket, locked) ==
  ObjectUpdate([lockedMap |-> Spread(EmptyMap, bucket.hash, locked)])

\* Faulty variant of updateLockedArmor: an object patch built from this.state.
updateLockedArmorFromThisState(self, bucket, locked) ==
  ObjectUpdate([lockedMap |-> Spread(self.state.lockedMap, bucket.hash, locked)])

updateLockedArmor(self, bucket, locked) == FunctionUpdate(bucket.hash, locked)

\* The calls the child components can make.
Calls ==
  {[h |-> "setRequiredPerks"]}
  \cup {[h |-> "onCharacterChanged", storeId |-> id] : id \in StoreIds}
  \cup {[h |-> "onStatFiltersChanged", statFilters |-> f] : f \in StatFiltersInputs}
  \cup {[h |-> "onMinimumPowerChanged", minimumPower |-> p] : p \in MinimumPowerInputs}
  \cup {[h |-> "onQueryChanged", query |-> q] : q \in QueryInputs}
  \cup {[h |-> "onStatOrderChanged", statOrder |-> o] : o \in StatOrderInputs}
  \cup {[h |-> "onLockedMapChanged", lockedMap |-> m] : m \in LockedMapInputs}
  \cup {[h |-> "updateLockedArmor", bucket |-> b, locked |-> l] : b \in Buckets, l \in LockedLists}

Invoke(self, call) ==
  CASE call.h = "setRequiredPerks" -> setRequiredPerks(self)
    [] call.h = "onCharacterChanged" -> onCharacterChanged(self, call.storeId)
    [] call.h = "onStatFiltersChanged" -> onStatFiltersChanged(self, call.statFilters)
    [] call.h = "onMinimumPowerChanged" -> onMinimumPowerChanged(self, call.minimumPower)
    [] call.h = "onQueryChanged" -> onQueryChanged(self, call.query)
    [] call.h = "onStatOrderChanged" -> onStatOrderChanged(self, call.statOrder)
    [] call.h = "onLockedMapChanged" -> onLockedMapChanged(self, call.lockedMap)
    [] call.h = "updateLockedArmor" -> updateLockedArmor(self, call.bucket, call.locked)

(***************************************************************************)
(* memoize-one                                                             *)
(***************************************************************************)
EmptyCache == [calledOnce |-> FALSE, lastArgs |-> None, lastResult |-> <<>>]

\* A remembered argument list after the component replaced the objects in
\* dropped.  Once one of its objects is dropped it equals no later argument
\* list, whatever the others are: such lists are kept as the one value Stale.
Retire(args, dropped) ==
  IF (DOMAIN args) \cap dropped # {} THEN Stale ELSE args

\* A cache whose arguments are stale never returns its result again.
RetireCache(cache, dropped) ==
  IF (DOMAIN cache.lastArgs) \cap dropped # {}
    THEN [calledOnce |-> TRUE, lastArgs |-> Stale, lastResult |-> <<>>]
    ELSE cache

\* A failed call whose arguments are stale can no longer be repeated.
RetireCall(call, dropped) ==
  IF (DOMAIN call.args) \cap dropped # {} THEN [args |-> None, threw |-> FALSE] ELSE call

\* areInputsEqual: every argument === the remembered one.
\* Faulty variant of the argument comparison: any remembered call still held counts
\* as the same call.
AreInputsEqualWhenHeld(newArgs, lastArgs) == lastArgs \notin {None, Stale}

AreInputsEqual(newArgs, lastArgs) == newArgs = lastArgs

\* One call of a memoized function; outcome is what the underlying function
\* does if it is invoked.  A throw leaves the cache as it was.
CallMemoized(cache, newArgs, outcome) ==
  IF cache.calledOnce /\ AreInputsEqual(newArgs, cache.lastArgs)
    THEN [cache |-> cache, status |-> "cached", threw |-> FALSE, result |-> cache.lastResult]
  ELSE IF outcome.threw
    THEN [cache |-> cache, status |-> "threw", threw |-> TRUE, result |-> <<>>]
  ELSE [cache |-> [calledOnce |-> TRUE, lastArgs |-> newArgs, lastResult |-> outcome.result],
        status |-> "returned", threw |-> FALSE, result |-> outcome.result]

(***************************************************************************)
(* The two external computations and the filter compiler, as black boxes   *)
(***************************************************************************)
\* computeSets returns a list of sets or throws.
ComputeOutcomes ==
  { [threw |-> TRUE, result |-> <<>>],
    [threw |-> FALSE, result |-> <<>>],
    [threw |-> FALSE, result |-> <<"set1", "set2">>] }

\* filterGeneratedSets returns some of the sets it is given, or throws.
FilterChoices == {"throw", "none", "all"}

FilterOutcome(sets, choice) ==
  [threw |-> choice = "throw", result |-> IF choice = "all" THEN sets ELSE <<>>]

\* filters.filterFunction: the predicate compiled from the query text; the same
\* text yields the same predicate.
FilterFunction(query) == query

(***************************************************************************)
(* render (lines 167-301)                                                  *)
(***************************************************************************)
\* What a render notes of one memoized call: its outcome and arguments, and
\* whether the arguments are the cache's / those of the underlying
\* function's most recent call (which may have thrown).
SkippedCall ==
  [status |-> "skipped", args |-> None, sameAsCached |-> FALSE,
   sameAsRecent |-> FALSE, recentThrew |-> FALSE]

NoCall == [args |-> None, threw |-> FALSE]

LoadingRecord ==
  [screen |-> "loading", menu |-> FALSE, filterBuildsSets |-> <<>>, generatedSets |-> <<>>,
   compute |-> SkippedCall, filter |-> SkippedCall]

\* Faulty variant of lines 191-194: the selection is not looked at.
RenderedStoreCurrent(st, pr) == FindCurrent(pr.stores)

\* let store = selectedStore; if (!store) store = stores.find((s) => s.current)
RenderedStore(st, pr) ==
  IF st.selectedStore # Undefined THEN st.selectedStore ELSE FindCurrent(pr.stores)

\* Faulty variant of the computeSets call: the minimum power is passed too.
ComputeArgsWithPower(st, store) ==
  [items |-> Held, classType |-> store.classType, requirePerks |-> st.requirePerks,
   lockedMap |-> Held, filter |-> FilterFunction(st.query), minimumPower |-> st.minimumPower]

ComputeArgs(st, store) ==
  [items |-> Held, classType |-> store.classType, requirePerks |-> st.requirePerks,
   lockedMap |-> Held, filter |-> FilterFunction(st.query)]

FilterArgs(st) ==
  [sets |-> Held, minimumPower |-> st.minimumPower, lockedMap |-> Held,
   statFilters |-> Held, statOrder |-> Held]

\* The history of an underlying function's calls after one more memoized
\* call: the arguments of its most recent call if that call threw.  (When it
\* returned, they are the cache's lastArgs.)
Remember(before, call, args) ==
  IF call.status = "threw" THEN [args |-> args, threw |-> TRUE]
  ELSE IF call.status = "returned" THEN NoCall
  ELSE before

CallInfo(call, args, cache, before) ==
  [status |-> call.status, args |-> args,
   sameAsCached |-> cache.calledOnce /\ args = cache.lastArgs,
   sameAsRecent |-> IF before.threw THEN args = before.args
                    ELSE cache.calledOnce /\ args = cache.lastArgs,
   recentThrew |-> before.threw]

\* The try block (lines 202-223): processedSets, filteredSets, processError.
TryCompute(st, store, mem, rec, o) ==
  LET cargs == ComputeArgs(st, store)
      c == CallMemoized(mem.compute, cargs, o.compute)
      \* a computeSets that ran returned a new list: the remembered one is dropped
      gone == IF c.status = "returned" THEN {"sets"} ELSE {}
      fcache == RetireCache(mem.filter, gone)
      fbefore == RetireCall(rec.filter, gone)
      fargs == FilterArgs(st)
      f == CallMemoized(fcache, fargs, FilterOutcome(c.result, o.filter))
  IN IF c.threw
       THEN [processedSets |-> <<>>, filteredSets |-> <<>>, processError |-> TRUE,
             memo |-> mem,
             recent |-> [rec EXCEPT !.compute = Remember(@, c, cargs)],
             compute |-> CallInfo(c, cargs, mem.compute, rec.compute),
             filter |-> SkippedCall]
       ELSE [processedSets |-> c.result,
             filteredSets |-> IF f.threw THEN <<>> ELSE f.result,
             processError |-> f.threw,
             memo |-> [compute |-> c.cache, filter |-> f.cache],
             recent |-> [compute |-> Remember(rec.compute, c, cargs),
                         filter |-> Remember(fbefore, f, fargs)],
             compute |-> CallInfo(c, cargs, mem.compute, rec.compute),
             filter |-> CallInfo(f, fargs, fcache, fbefore)]

\* Faulty variant of the contents: the prompt is shown whenever no set was
\* found.
ContentsPromptWhenEmpty(processError, processedSets, filteredSets, requirePerks) ==
  IF processError THEN [screen |-> "error", generatedSets |-> <<>>]
  ELSE IF Len(processedSets) = 0 THEN [screen |-> "prompt", generatedSets |-> <<>>]
  ELSE [screen |-> "results", generatedSets |-> filteredSets]

\* Faulty variant of the contents: results are shown whenever there are any.
ContentsIgnoringError(processError, processedSets, filteredSets, requirePerks) ==
  IF Len(processedSets) = 0 /\ requirePerks THEN [screen |-> "prompt", generatedSets |-> <<>>]
  ELSE [screen |-> "results", generatedSets |-> filteredSets]

\* PageWithMenu.Contents (lines 273-296)
Contents(processError, processedSets, filteredSets, requirePerks) ==
  IF processError THEN [screen |-> "error", generatedSets |-> <<>>]
  ELSE IF Len(processedSets) = 0 /\ requirePerks THEN [screen |-> "prompt", generatedSets |-> <<>>]
  ELSE [screen |-> "results", generatedSets |-> filteredSets]

\* The sets prop of FilterBuilds (line 234)
FilterBuildsSets(t) == t.processedSets

\* One render: the caches and call history it leaves, and what it rendered.
Render(st, pr, mem, rec, o) ==
  IF ~pr.storesLoaded \/ ~pr.defs
    THEN [memo |-> mem, recent |-> rec, record |-> LoadingRecord]
  ELSE LET store == RenderedStore(st, pr) IN
    IF store.classType \notin pr.itemClasses
      THEN [memo |-> mem, recent |-> rec, record |-> LoadingRecord]
    ELSE LET t == TryCompute(st, store, mem, rec, o)
             c == Contents(t.processError, t.processedSets, t.filteredSets, st.requirePerks)
         IN [memo |-> t.memo, recent |-> t.recent,
             record |-> [screen |-> c.screen, menu |-> TRUE,
                         filterBuildsSets |-> FilterBuildsSets(t),
                         generatedSets |-> c.generatedSets,
                         compute |-> t.compute, filter |-> t.filter]]

\* What the two computations may do when a render invokes them.
Outcomes == [compute : ComputeOutcomes, filter : FilterChoices]

\* The computations of a run in which neither throws.
NoFailure == {o \in Outcomes : ~o.compute.threw /\ o.compute.result # <<>> /\ o.filter = "all"}

RetireAll(x, dropped) ==
  [compute |-> RetireCache(x.compute, dropped), filter |-> RetireCache(x.filter, dropped)]

RetireHistory(x, dropped) ==
  [compute |-> RetireCall(x.compute, dropped), filter |-> RetireCall(x.filter, dropped)]

\* The renders possible with state st and props pr after the objects in
\* dropped were replaced, for the behaviours O of the computations.
RenderResults(st, pr, mem, rec, dropped, O) ==
  {Render(st, pr, RetireAll(mem, dropped), RetireHistory(rec, dropped), o) : o \in O}

\* React re-renders the component once.
Rerender(st, pr, dropped, O) ==
  \E r \in RenderResults(st, pr, memo, recent, dropped, O) :
    /\ memo' = r.memo
    /\ recent' = r.recent
    /\ renders' = <<r.record>>

(***************************************************************************)
(* Lifecycle (lines 128-165)                                               *)
(***************************************************************************)
InitIn(P) ==
  /\ state = InitialState
  /\ props \in P
  /\ lifecycle = "constructed"
  /\ storesSubscription = 0
  /\ activeSubs = {}
  /\ memo = [compute |-> EmptyCache, filter |-> EmptyCache]
  /\ recent = [compute |-> NoCall, filter |-> NoCall]
  /\ renders = <<>>

\* getStoresStream(account).subscribe(...): a new subscription becomes active.
ComponentDidMount ==
  LET sub == Cardinality(activeSubs) + 1
  IN /\ storesSubscription' = sub
     /\ activeSubs' = activeSubs \cup {sub}

\* Faulty variant of componentWillUnmount: the subscription is left active.
ComponentWillUnmountLeaks == UNCHANGED <<activeSubs, storesSubscription>>

ComponentWillUnmount ==
  /\ activeSubs' = activeSubs \ {storesSubscription}
  /\ UNCHANGED storesSubscription

\* The first render, then componentDidMount.
Mount(O) ==
  /\ lifecycle = "constructed"
  /\ lifecycle' = "mounted"
  /\ Rerender(state, props, {}, O)
  /\ ComponentDidMount
  /\ UNCHANGED <<state, props>>

Unmount ==
  /\ lifecycle = "mounted"
  /\ lifecycle' = "unmounted"
  /\ ComponentWillUnmount
  /\ renders' = <<>>
  /\ UNCHANGED <<state, props, memo, recent>>

(***************************************************************************)
(* Events                                                                  *)
(***************************************************************************)
\* One React event in which the children call the handlers in calls: the
\* updates are queued (this.state stays as it was) and processed in order,
\* then the component re-renders once.
EventQueue(st, pr, calls) ==
  [i \in DOMAIN calls |-> Invoke([state |-> st, props |-> pr], calls[i])]

EventState(st, pr, calls) == ProcessUpdateQueue(st, EventQueue(st, pr, calls))

Dispatch(calls, O) ==
  /\ lifecycle = "mounted"
  /\ state' = EventState(state, props, calls)
  /\ Rerender(EventState(state, props, calls), props,
              ReplacedBy(EventQueue(state, props, calls)), O)
  /\ UNCHANGED <<props, lifecycle, storesSubscription, activeSubs>>

\* The connected store hands the component new props.  The items selector
\* returns the same object unless the stores changed.
PropsChanged(p, O) ==
  /\ lifecycle = "mounted"
  /\ props' = p
  /\ Rerender(state, p,
       IF p # props /\ p.stores = props.stores /\ p.itemClasses = props.itemClasses
         THEN {} ELSE {"items"}, O)
  /\ UNCHANGED <<state, lifecycle, storesSubscription, activeSubs>>

\* The subscribe callback (lines 146-159), called with one emission of the
\* stores stream.  Inside a React batch (the replay on subscribe, during
\* componentDidMount) the setState calls are queued and this.state is still the
\* old state when line 153 reads it; outside one, each setState is applied and
\* rendered before it returns.  React decides which; both happen.
\* Faulty variant of lines 153-158: every snapshot is treated as the first.
ReconcileAlwaysResets(self, stores) == onCharacterChanged(self, FindCurrent(stores).id)

\* Lines 153-158: the second setState of the callback, self being `this` as
\* line 153 reads it.
Reconcile(self, stores) ==
  IF self.state.selectedStore = Undefined
    THEN onCharacterChanged(self, FindCurrent(stores).id)
    ELSE ObjectUpdate([selectedStore |-> FindById(stores, self.state.selectedStore.id)])

\* Lines 151-158 for a snapshot that is not null.
ProcessSnapshot(stores, batched, O) ==
  LET first == ObjectUpdate([selectedStore |-> FindCurrent(stores)])
      seen == IF batched THEN state ELSE ProcessUpdateQueue(state, <<first>>)
      second == Reconcile([state |-> seen, props |-> props], stores)
      final == ProcessUpdateQueue(state, <<first, second>>)
  IN /\ state' = final
     /\ IF batched
          THEN Rerender(final, props, ReplacedBy(<<first, second>>), O)
          ELSE \E r1 \in RenderResults(seen, props, memo, recent, {}, O) :
               \E r2 \in RenderResults(final, props, r1.memo, r1.recent, Replaced(second), O) :
                 /\ memo' = r2.memo
                 /\ recent' = r2.recent
                 /\ renders' = <<r1.record, r2.record>>

\* Faulty variant of the callback: a null emission clears the selection.
StoresCallbackClearsOnNull(e, batched, O) ==
  /\ storesSubscription \in activeSubs
  /\ IF lifecycle # "mounted"
       THEN /\ renders' = <<>>
            /\ UNCHANGED <<state, memo, recent>>
       ELSE IF e.null
         THEN /\ state' = [state EXCEPT !.selectedStore = Undefined]
              /\ Rerender([state EXCEPT !.selectedStore = Undefined], props, {}, O)
         ELSE ProcessSnapshot(e.stores, batched, O)
  /\ UNCHANGED <<props, lifecycle, storesSubscription, activeSubs>>

StoresCallback(e, batched, O) ==
  /\ storesSubscription \in activeSubs
  /\ IF e.null \/ lifecycle # "mounted"
       THEN /\ renders' = <<>>
            /\ UNCHANGED <<state, memo, recent>>
       ELSE ProcessSnapshot(e.stores, batched, O)
  /\ UNCHANGED <<props, lifecycle, storesSubscription, activeSubs>>

\* The events of the child components, one handler call each.
SetRequiredPerks(O) == Dispatch(<<[h |-> "setRequiredPerks"]>>, O)

OnCharacterChanged(C, O) == \E c \in C : c.h = "onCharacterChanged" /\ Dispatch(<<c>>, O)

OnStatFiltersChanged(C, O) == \E c \in C : c.h = "onStatFiltersChanged" /\ Dispatch(<<c>>, O)

OnMinimumPowerChanged(C, O) == \E c \in C : c.h = "onMinimumPowerChanged" /\ Dispatch(<<c>>, O)

OnQueryChanged(C, O) == \E c \in C : c.h = "onQueryChanged" /\ Dispatch(<<c>>, O)

OnStatOrderChanged(C, O) == \E c \in C : c.h = "onStatOrderChanged" /\ Dispatch(<<c>>, O)

OnLockedMapChanged(C, O) == \E c \in C : c.h = "onLockedMapChanged" /\ Dispatch(<<c>>, O)

UpdateLockedArmor(C, O) == \E c \in C : c.h = "updateLockedArmor" /\ Dispatch(<<c>>, O)

\* Several handler calls in one batched event.
BatchCalls ==
  {c \in Calls :
     \/ c.h = "updateLockedArmor"
     \/ c.h = "onMinimumPowerChanged" /\ c.minimumPower # 0
     \/ c.h = "onLockedMapChanged" /\ c.lockedMap # EmptyMap}

Batches(C) == UNION {[1..n -> C] : n \in 2..MaxBatch}

BatchedEvent(C, O) == \E calls \in Batches(C) : Dispatch(calls, O)

\* The component in an environment: the calls C its children make (B: in
\* batches), the props P and emissions E it is handed, and the behaviours O
\* of the two computations.
NextIn(C, B, P, E, O) ==
  \/ Mount(O)
  \/ Unmount
  \/ SetRequiredPerks(O)
  \/ OnCharacterChanged(C, O)
  \/ OnStatFiltersChanged(C, O)
  \/ OnMinimumPowerChanged(C, O)
  \/ OnQueryChanged(C, O)
  \/ OnStatOrderChanged(C, O)
  \/ OnLockedMapChanged(C, O)
  \/ UpdateLockedArmor(C, O)
  \/ BatchedEvent(B, O)
  \/ \E p \in P : PropsChanged(p, O)
  \/ \E e \in E, batched \in BOOLEAN : StoresCallback(e, batched, O)

\* The component with data loaded and computations that do not fail.
Init == InitIn(ReadyProps)

Next == NextIn(Calls, BatchCalls, ReadyProps, Emissions, NoFailure)

Spec == Init /\ [][Next]_vars

(***************************************************************************)
(* Properties of the component state                                       *)
(***************************************************************************)
\* C1: the state that onCharacterChanged(storeId) leaves, from any state, has
\* an empty lockedMap, every stat filter {min 0, max 10}, minimumPower 0,
\* requirePerks true, and as selectedStore the store of props.stores with
\* that id.  Both callers are covered: the character selector, and the
\* subscribe callback on a first snapshot.
CharacterChangeResets ==
  [][/\ \A id \in StoreIds :
          Dispatch(<<[h |-> "onCharacterChanged", storeId |-> id]>>, NoFailure) =>
            /\ state'.lockedMap = EmptyMap
            /\ \A t \in StatTypes : state'.statFilters[t] = [min |-> 0, max |-> 10]
            /\ state'.minimumPower = 0
            /\ state'.requirePerks
            /\ state'.selectedStore = FindById(props.stores, id)
     /\ \A e \in Emissions :
          (~e.null /\ state.selectedStore = Undefined /\ StoresCallback(e, TRUE, NoFailure)) =>
            /\ state'.lockedMap = EmptyMap
            /\ \A t \in StatTypes : state'.statFilters[t] = [min |-> 0, max |-> 10]
            /\ state'.minimumPower = 0
            /\ state'.requirePerks
            /\ state'.selectedStore = FindById(props.stores, FindCurrent(e.stores).id)]_vars

\* A character was picked after the filters, the query and the order were
\* changed: the filters are back at their defaults.
CharacterChangeResetsWitness ==
  /\ state.selectedStore = Store("b", FALSE)
  /\ state.lockedMap = EmptyMap
  /\ state.statFilters = DefaultStatFilters
  /\ state.minimumPower = 0
  /\ state.requirePerks
  /\ state.query # ""
  /\ state.statOrder # DefaultStatOrder
  /\ Len(renders) = 1
  /\ renders[1].filter.status = "returned"

\* C6: at most one subscription to the stores stream is ever active; it is
\* the one componentDidMount acquired; none is active before the mount or
\* after componentWillUnmount, and the state never changes after unmount.
ScopedSubscription ==
  /\ [](/\ Cardinality(activeSubs) <= 1
        /\ lifecycle = "constructed" => activeSubs = {} /\ storesSubscription = 0
        /\ lifecycle = "mounted" => activeSubs = {storesSubscription}
        /\ lifecycle = "unmounted" => activeSubs = {})
  /\ [][lifecycle = "unmounted" => state' = state /\ activeSubs' = {}]_vars

\* The component was unmounted after a snapshot had selected a character.
ScopedSubscriptionWitness ==
  /\ lifecycle = "unmounted"
  /\ storesSubscription # 0
  /\ activeSubs = {}
  /\ state.selectedStore # Undefined

\* C7: when a snapshot arrives while a character is selected and the
\* snapshot holds a store with the selected id, selectedStore is that store
\* of the snapshot once the callback's updates are applied.
SelectionReconciled ==
  [][\A e \in Emissions, batched \in BOOLEAN :
       (/\ ~e.null
        /\ state.selectedStore # Undefined
        /\ FindById(e.stores, state.selectedStore.id) # Undefined
        /\ StoresCallback(e, batched, NoFailure))
       => state'.selectedStore = FindById(e.stores, state.selectedStore.id)]_vars

\* C8: the handler calls of one batch are all reflected, in call order: the
\* state the batch leaves is the state the same calls leave when each is an
\* event of its own, a slot locked by updateLockedArmor holds what was
\* locked unless a later call of the batch wrote it, and likewise the
\* minimum power.
RECURSIVE OneByOne(_, _, _)
OneByOne(st, pr, calls) ==
  IF calls = <<>> THEN st
  ELSE OneByOne(EventState(st, pr, <<Head(calls)>>), pr, Tail(calls))

WritesLock(call, hash) ==
  \/ call.h \in {"onLockedMapChanged", "onCharacterChanged"}
  \/ call.h = "updateLockedArmor" /\ call.bucket.hash = hash

NoLostUpdate ==
  \A calls \in Batches(BatchCalls) :
    LET after == EventState(state, props, calls) IN
      /\ after = OneByOne(state, props, calls)
      /\ \A i \in DOMAIN calls :
           /\ (/\ calls[i].h = "updateLockedArmor"
               /\ \A j \in DOMAIN calls : j > i => ~WritesLock(calls[j], calls[i].bucket.hash))
              => /\ calls[i].bucket.hash \in DOMAIN after.lockedMap
                 /\ after.lockedMap[calls[i].bucket.hash] = calls[i].locked
           /\ (/\ calls[i].h = "onMinimumPowerChanged"
               /\ \A j \in DOMAIN calls :
                    j > i => calls[j].h \notin {"onMinimumPowerChanged", "onCharacterChanged"})
              => after.minimumPower = calls[i].minimumPower

\* Both slots are locked and the minimum power is raised.
NoLostUpdateWitness ==
  /\ DOMAIN state.lockedMap = {"helmet", "chest"}
  /\ state.minimumPower = 750
  /\ lifecycle = "mounted"

\* C9: every stat filter satisfies 0 <= min <= max <= 10 and statOrder is a
\* permutation of the three stats, the children passing well-formed values.
StateWellFormed ==
  /\ \A t \in StatTypes :
       /\ 0 <= state.statFilters[t].min
       /\ state.statFilters[t].min <= state.statFilters[t].max
       /\ state.statFilters[t].max <= 10
  /\ Len(state.statOrder) = Cardinality(StatTypes)
  /\ {state.statOrder[i] : i \in DOMAIN state.statOrder} = StatTypes

\* A character change reset the filters after the children had changed them
\* (requirePerks is true again, the order and the query are the children's).
StateWellFormedWitness ==
  /\ state.statFilters = DefaultStatFilters
  /\ state.statOrder[1] = "Mobility"
  /\ state.query # ""
  /\ state.selectedStore = Store("b", TRUE)
  /\ lifecycle = "mounted"

\* C10: from the initial state, once the first snapshot is processed
\* selectedStore is the snapshot's current store (here: a store with its id),
\* whatever props.stores holds.
FirstSnapshotSelectsCurrent ==
  [][\A e \in Emissions, batched \in BOOLEAN :
       (~e.null /\ state = InitialState /\ StoresCallback(e, batched, NoFailure))
       => /\ state'.selectedStore # Undefined
          /\ state'.selectedStore.id = FindCurrent(e.stores).id]_vars

(***************************************************************************)
(* The component with computations that may throw                          *)
(***************************************************************************)
\* The children's calls here: each handler, the objects it passes being new
\* ones with the contents of the defaults.
RenderCalls ==
  {c \in Calls :
     \/ c.h \in {"setRequiredPerks", "onMinimumPowerChanged", "onQueryChanged"}
     \/ c.h = "onCharacterChanged" /\ c.storeId = "b"
     \/ c.h = "onStatFiltersChanged" /\ c.statFilters = DefaultStatFilters
     \/ c.h = "onStatOrderChanged" /\ c.statOrder = DefaultStatOrder
     \/ c.h = "onLockedMapChanged" /\ c.lockedMap = EmptyMap
     \/ c.h = "updateLockedArmor" /\ c.bucket.hash = "helmet"}

RenderBatchCalls == {c \in Calls : c.h = "setRequiredPerks"}

\* Props before and after the data is loaded.
RenderProps == {p \in PropsValues : p.stores = <<>> \/ (Len(p.stores) = 2 /\ p.stores[1].current)}

\* The stores stream emits nothing but null before the stores are loaded.
RenderEmissions == {e \in Emissions : e.null}

NextRender == NextIn(RenderCalls, RenderBatchCalls, RenderProps, RenderEmissions, Outcomes)

SpecRender == InitIn(RenderProps) /\ [][NextRender]_vars

Invoked(call) == call.status \in {"returned", "threw"}

\* C2: a render in which computeSets or filterGeneratedSets throws still
\* completes with the menu, and its contents are the error panel, neither
\* the generated sets nor the no-builds prompt.
FailureBoundary ==
  \A i \in DOMAIN renders :
    (renders[i].compute.status = "threw" \/ renders[i].filter.status = "threw")
      => /\ renders[i].menu
         /\ renders[i].screen = "error"
         /\ renders[i].screen \notin {"results", "prompt", "loading"}

\* computeSets returned and filterGeneratedSets threw: the error panel.
FailureBoundaryWitness ==
  \E i \in DOMAIN renders :
    /\ renders[i].compute.status = "returned"
    /\ renders[i].filter.status = "threw"
    /\ renders[i].screen = "error"
    /\ renders[i].menu

\* C3: a render in which either computation throws passes the empty list of
\* sets both to FilterBuilds and to GeneratedSets.
NoPartialResults ==
  \A i \in DOMAIN renders :
    (renders[i].compute.status = "threw" \/ renders[i].filter.status = "threw")
      => /\ renders[i].filterBuildsSets = <<>>
         /\ renders[i].generatedSets = <<>>

\* C4: a render that calls a computation with the arguments of its
\* most recent call, which threw, does not invoke it again.
NoRetryOfFailure ==
  \A i \in DOMAIN renders :
    /\ (renders[i].compute.recentThrew /\ renders[i].compute.sameAsRecent)
         => ~Invoked(renders[i].compute)
    /\ (renders[i].filter.recentThrew /\ renders[i].filter.sameAsRecent)
         => ~Invoked(renders[i].filter)

FilterFields == {"lockedMap", "statFilters", "minimumPower", "requirePerks", "query", "statOrder"}

\* C11: a snapshot that arrives while a character is selected leaves
\* lockedMap, statFilters, minimumPower, requirePerks, query and statOrder
\* as they were, whether or not React batches the callback's updates; only
\* selectedStore may change.  (Stated contrapositively: a step that changes
\* one of these fields is not such an arrival.)
SnapshotKeepsFilters ==
  [][(\E f \in FilterFields : state'[f] # state[f])
       => ~\E e \in Emissions, batched \in BOOLEAN :
             /\ ~e.null
             /\ state.selectedStore # Undefined
             /\ StoresCallback(e, batched, NoFailure)]_vars

\* A snapshot was processed outside a batch (two renders) and the filters
\* the user had set are all in place.
SnapshotKeepsFiltersWitness ==
  /\ Len(renders) = 2
  /\ state.selectedStore = Store("b", TRUE)
  /\ state.lockedMap # EmptyMap
  /\ state.statFilters # DefaultStatFilters
  /\ state.minimumPower = 750
  /\ ~state.requirePerks
  /\ state.query # ""
  /\ state.statOrder # DefaultStatOrder

(***************************************************************************)
(* Which computation a change re-runs                                      *)
(***************************************************************************)
\* The calls that change only an argument of filterGeneratedSets.
FilterOnlyCalls(C) ==
  {c \in C : \/ c.h \in {"onStatFiltersChanged", "onStatOrderChanged"}
             \/ c.h = "onMinimumPowerChanged" /\ c.minimumPower # state.minimumPower}

\* The last render ran both computations and neither threw.
CompletedWithoutError ==
  /\ renders # <<>>
  /\ renders[Len(renders)].screen \in {"results", "prompt"}

\* C12: after a render that completed without error, a change to only
\* minimumPower, statFilters or statOrder makes the next render invoke
\* filterGeneratedSets again (it may throw) and reuse the result of
\* computeSets.
FilterChangeKeepsSolverResult ==
  [][CompletedWithoutError =>
       \A c \in FilterOnlyCalls(RenderCalls) :
         Dispatch(<<c>>, Outcomes) =>
           /\ Len(renders') = 1
           /\ renders'[1].compute.status = "cached"
           /\ Invoked(renders'[1].filter)]_vars

\* The minimum power alone was raised: computeSets was not run again,
\* filterGeneratedSets was.
FilterChangeKeepsSolverResultWitness ==
  /\ Len(renders) = 1
  /\ renders[1].compute.status = "cached"
  /\ renders[1].filter.status = "returned"
  /\ renders[1].filter.args.minimumPower = 750
  /\ memo.compute.lastArgs # Stale
  /\ memo.filter.lastArgs.minimumPower = 750
  /\ state.lockedMap = EmptyMap
  /\ state.query = ""
  /\ state.requirePerks

(***************************************************************************)
(* The items selector of mapStateToProps (lines 68-105)                    *)
(***************************************************************************)
MaxStores == 2
MaxItems == 2

\* item.bucket.hash of the ghost bucket (4023194814, line 82), as a key.
GhostBucketHash == "4023194814"

\* DestinyClass: the three classes, and Unknown for an item of any class.
DestinyClasses == {"Hunter", "Titan", "Warlock"}

UnknownClass == "Unknown"

\* A null entry of store.items.
NullItem ==
  [null |-> TRUE, d2 |-> FALSE, sockets |-> FALSE, inArmor |-> FALSE,
   bucket |-> "", classType |-> UnknownClass, hash |-> ""]

\* bucket.inArmor and bucket.hash: an armor slot, the ghost slot, a weapon slot.
ItemBuckets ==
  { [inArmor |-> TRUE, hash |-> "helmet"],
    [inArmor |-> FALSE, hash |-> GhostBucketHash],
    [inArmor |-> FALSE, hash |-> "kinetic"] }

ItemHashes == {"h1", "h2"}

\* The items of the inventory: d2 is item.isDestiny2(), sockets whether
\* item.sockets is set.  Items the selector skips for d2 or sockets come in
\* one class and hash only.
ItemValues ==
  {NullItem} \cup
  { i \in { [null |-> FALSE, d2 |-> d, sockets |-> s, inArmor |-> b.inArmor,
             bucket |-> b.hash, classType |-> c, hash |-> h] :
               d \in BOOLEAN, s \in BOOLEAN, b \in ItemBuckets,
               c \in {"Hunter", UnknownClass}, h \in ItemHashes } :
      (i.d2 /\ i.sockets) \/ (i.classType = "Hunter" /\ i.hash = "h1") }

\* Faulty variant of the test of lines 78-82: the ghost bucket is forgotten.
SkippedUnlessArmor(item) ==
  item.null \/ ~item.d2 \/ ~item.sockets \/ ~item.inArmor

\* Lines 78-82: the items the loop passes over.
Skipped(item) ==
  \/ item.null
  \/ ~item.d2
  \/ ~item.sockets
  \/ (~item.inArmor /\ item.bucket # GhostBucketHash)

\* Lines 86-88: the classes an item is filed under.
ClassTypesOf(item) ==
  IF item.classType = UnknownClass THEN <<"Hunter", "Titan", "Warlock">>
  ELSE <<item.classType>>

\* obj[key] = value
Assign(obj, key, value) ==
  [k \in (DOMAIN obj) \cup {key} |-> IF k = key THEN value ELSE obj[k]]

\* obj[key], or the empty object / list the code creates when it is missing
OrEmpty(obj, key) == IF key \in DOMAIN obj THEN obj[key] ELSE <<>>

\* Lines 89-98: items[classType][item.bucket.hash][item.hash].push(item).
\* ref stands for the item object: its place in the stores.
Push(items, classType, item, ref) ==
  LET byBucket == OrEmpty(items, classType)
      byHash == OrEmpty(byBucket, item.bucket)
      list == OrEmpty(byHash, item.hash)
  IN Assign(items, classType,
            Assign(byBucket, item.bucket,
                   Assign(byHash, item.hash, Append(list, ref))))

RECURSIVE PushEach(_, _, _, _)
PushEach(items, classTypes, item, ref) ==
  IF classTypes = <<>> THEN items
  ELSE PushEach(Push(items, Head(classTypes), item, ref), Tail(classTypes), item, ref)

\* for (const item of store.items), from the i-th item of store s on
RECURSIVE GroupStore(_, _, _, _)
GroupStore(items, stores, s, i) ==
  IF i > Len(stores[s].items) THEN items
  ELSE LET item == stores[s].items[i]
       IN GroupStore(IF Skipped(item) THEN items
                     ELSE PushEach(items, ClassTypesOf(item), item, <<s, i>>),
                     stores, s, i + 1)

\* for (const store of stores), from store s on
RECURSIVE GroupStores(_, _, _)
GroupStores(items, stores, s) ==
  IF s > Len(stores) THEN items
  ELSE GroupStores(GroupStore(items, stores, s, 1), stores, s + 1)

itemsSelector(stores) == GroupStores(<<>>, stores, 1)

\* mapStateToProps for loaded stores (lines 107-117)
ItemProps(stores) ==
  [storesLoaded |-> TRUE, defs |-> TRUE, stores |-> stores,
   itemClasses |-> DOMAIN itemsSelector(stores), items |-> itemsSelector(stores)]

ItemCount(stores) == Cardinality({<<s, i>> \in (DOMAIN stores) \X (1..MaxItems + 1) :
                                    i \in DOMAIN stores[s].items})

\* The inventory gains a store, or its last store an item.
StoreAdded ==
  /\ Len(props.stores) < MaxStores
  /\ props' = ItemProps(Append(props.stores, [id |-> Len(props.stores) + 1, items |-> <<>>]))
  /\ UNCHANGED <<state, lifecycle, storesSubscription, activeSubs, memo, recent, renders>>

ItemAdded ==
  /\ props.stores # <<>>
  /\ ItemCount(props.stores) < MaxItems
  /\ \E item \in ItemValues :
       props' = ItemProps([props.stores EXCEPT ![Len(props.stores)].items = Append(@, item)])
  /\ UNCHANGED <<state, lifecycle, storesSubscription, activeSubs, memo, recent, renders>>

NextItems == StoreAdded \/ ItemAdded

SpecItems == InitIn({ItemProps(<<>>)}) /\ [][NextItems]_vars

\* The list items[c][b][h], empty when there is none.
ItemsAt(items, c, b, h) == OrEmpty(OrEmpty(OrEmpty(items, c), b), h)

Occurrences(list, x) == Cardinality({k \in DOMAIN list : list[k] = x})

\* C13: an item of the stores is in items[c][b][h] exactly when it is a
\* Destiny 2 item with sockets, its bucket is an armor bucket or the ghost
\* bucket, b and h are its bucket hash and item hash, and c is its class
\* type or, when its class type is Unknown, any of Hunter, Titan, Warlock;
\* it is there exactly once, and the map holds nothing else.  (No item
\* object is in two places of the stores.)
ItemsGrouped ==
  /\ \A s \in DOMAIN props.stores : \A i \in DOMAIN props.stores[s].items :
       \A c \in DestinyClasses \cup {UnknownClass} :
       \A b \in {k.hash : k \in ItemBuckets} \cup {""} : \A h \in ItemHashes \cup {""} :
         LET item == props.stores[s].items[i]
             belongs ==
               /\ ~item.null /\ item.d2 /\ item.sockets
               /\ (item.inArmor \/ item.bucket = GhostBucketHash)
               /\ b = item.bucket /\ h = item.hash
               /\ IF item.classType = UnknownClass THEN c \in DestinyClasses
                                                   ELSE c = item.classType
         IN Occurrences(ItemsAt(props.items, c, b, h), <<s, i>>) = IF belongs THEN 1 ELSE 0
  /\ DOMAIN props.items \subseteq DestinyClasses
  /\ \A c \in DOMAIN props.items : \A b \in DOMAIN props.items[c] :
       \A h \in DOMAIN props.items[c][b] :
         /\ props.items[c][b][h] # <<>>
         /\ \A k \in DOMAIN props.items[c][b][h] :
              LET ref == props.items[c][b][h][k]
              IN ref[1] \in DOMAIN props.stores /\ ref[2] \in DOMAIN props.stores[ref[1]].items

\* A ghost of no class is filed under all three classes, a Hunter helmet
\* under Hunter alone.
ItemsGroupedWitness ==
  /\ "items" \in DOMAIN props
  /\ DOMAIN props.items = DestinyClasses
  /\ GhostBucketHash \in DOMAIN props.items["Titan"]
  /\ GhostBucketHash \in DOMAIN props.items["Warlock"]
  /\ DOMAIN props.items["Hunter"] = {GhostBucketHash, "helmet"}
  /\ "helmet" \notin DOMAIN props.items["Titan"]

(***************************************************************************)
(* What the handlers leave alone                                           *)
(***************************************************************************)
\* C14: onCharacterChanged leaves query and statOrder as they were, and the
\* render for the newly selected character calls computeSets with the
\* predicate of the search text set before the change.
CharacterChangeKeepsSearch ==
  [][\A id \in StoreIds :
       Dispatch(<<[h |-> "onCharacterChanged", storeId |-> id]>>, NoFailure) =>
         /\ state'.query = state.query
         /\ state'.statOrder = state.statOrder
         /\ Len(renders') = 1
         /\ renders'[1].compute.status # "skipped"
         /\ renders'[1].compute.args.filter = FilterFunction(state.query)]_vars

\* Character a was picked: the filters are reset, the search text and the
\* stat order are the user's, and computeSets was called with that text's
\* predicate.
CharacterChangeKeepsSearchWitness ==
  /\ state.selectedStore = Store("a", TRUE)
  /\ state.lockedMap = EmptyMap
  /\ state.statFilters = DefaultStatFilters
  /\ state.minimumPower = 0
  /\ state.requirePerks
  /\ state.query = "is:masterwork"
  /\ state.statOrder # DefaultStatOrder
  /\ Len(renders) = 1
  /\ renders[1].compute.status = "returned"
  /\ renders[1].compute.args.filter = FilterFunction("is:masterwork")

\* The events of the children: one call of C, or a batch of calls of B.
Events(C, B) == {<<c>> : c \in C} \cup Batches(B)

Calling(events, h) == {calls \in events : \E i \in DOMAIN calls : calls[i].h = h}

\* C15: requirePerks becomes false only in an event that calls
\* setRequiredPerks, and true again only where onCharacterChanged is called
\* (by the character selector, or by the callback on a first snapshot); a
\* render that reaches the contents shows the no-builds prompt exactly when
\* nothing threw, the processed sets are empty and requirePerks is true; so
\* no prompt is shown while requirePerks is false.
PerksRelaxedUntilCharacterChange ==
  /\ [](\A i \in DOMAIN renders :
          /\ renders[i].menu =>
               (renders[i].screen = "prompt" <=>
                  /\ renders[i].compute.status # "threw"
                  /\ renders[i].filter.status # "threw"
                  /\ renders[i].filterBuildsSets = <<>>
                  /\ renders[i].compute.args.requirePerks)
          /\ renders[i].screen = "prompt" => state.requirePerks)
  /\ [][/\ (state.requirePerks /\ ~state'.requirePerks) =>
             \E calls \in Calling(Events(RenderCalls, RenderBatchCalls), "setRequiredPerks") :
               Dispatch(calls, Outcomes)
        /\ (~state.requirePerks /\ state'.requirePerks) =>
             \/ \E calls \in Calling(Events(RenderCalls, RenderBatchCalls), "onCharacterChanged") :
                  Dispatch(calls, Outcomes)
             \/ /\ state.selectedStore = Undefined
                /\ \E e \in RenderEmissions : StoresCallback(e, TRUE, Outcomes)]_vars

\* After setRequiredPerks a render found no set and shows the (empty)
\* results, not the prompt.
PerksRelaxedUntilCharacterChangeWitness ==
  /\ ~state.requirePerks
  /\ Len(renders) = 1
  /\ renders[1].screen = "results"
  /\ renders[1].compute.status = "returned"
  /\ renders[1].filterBuildsSets = <<>>
  /\ renders[1].generatedSets = <<>>

NoComputationBeforeReady ==
  \A i \in DOMAIN renders :
    LET classType == IF state.selectedStore # Undefined THEN state.selectedStore.classType
                     ELSE FindCurrent(props.stores).classType
    IN IF ~props.storesLoaded \/ ~props.defs \/ classType \notin props.itemClasses
         THEN /\ renders[i].screen = "loading"
              /\ renders[i].compute.status = "skipped"
              /\ renders[i].filter.status = "skipped"
              /\ ~renders[i].menu
         ELSE /\ renders[i].screen # "loading"
              /\ renders[i].compute.status # "skipped"
              /\ renders[i].compute.args.classType = classType

\* Stores and definitions are loaded, the selected Hunter has no items yet:
\* the loading indicator.
NoComputationBeforeReadyWitness ==
  /\ Len(renders) = 1
  /\ props.storesLoaded
  /\ props.defs
  /\ state.selectedStore # Undefined
  /\ state.selectedStore.classType = "Hunter"
  /\ "Hunter" \notin props.itemClasses
  /\ "Titan" \in props.itemClasses
  /\ renders[1].screen = "loading"

(***************************************************************************)
(* Emissions without stores                                                *)
(***************************************************************************)
\* C18: the callback called with a null (or undefined) snapshot changes no
\* field of the component state, batched or not.
NullEmissionIgnored ==
  [][\A e \in Emissions, batched \in BOOLEAN :
       (e.null /\ StoresCallback(e, batched, NoFailure)) => state' = state]_vars

\* The mounted component has just been handed a null snapshot (it did not
\* render): its selection and the user's filters are in place.
NullEmissionIgnoredWitness ==
  /\ lifecycle = "mounted"
  /\ renders = <<>>
  /\ state.selectedStore = Store("b", TRUE)
  /\ state.lockedMap # EmptyMap
  /\ state.minimumPower = 750
  /\ ~state.requirePerks
  /\ state.query # ""

====
